---- MODULE Spec2Model ----
(***************************************************************************)
(* The application host of agte/meow: the lifecycle of Application         *)
(* (init / destroy), its loaders, and the data-patch coordinator           *)
(* (#patchData) running in several processes against one shared Patch      *)
(* collection.  One action is one uninterrupted segment of an async        *)
(* method: the code between two awaits runs without interleaving.          *)
(***************************************************************************)
EXTENDS Integers, Sequences, FiniteSets, TLC

\* ---------------------------------------------------------------- bounds
NumInstances == 2       \* processes sharing the Patch collection
MaxPatchId == 2         \* patch files are named 1.js .. MaxPatchId.js
MaxModels == 1          \* files of api/models
MaxServices == 2        \* modules of api/modules that hold a service.js
MaxDocs == 2            \* documents ever inserted into the Product collection
MaxTasks == 2           \* tasks the scheduler artifacts register

Instances == 1..NumInstances
PatchIds == 1..MaxPatchId

VARIABLES
    app,          \* app[i]: the Application object of process i
    Patch,        \* the shared Patch collection: _id -> status
    patchFiles,   \* api/patches as readdirSync enumerates it (ids of the file names)
    modelFiles,   \* api/models: the discovered model names
    asyncModels,  \* the models whose init hook awaits before it completes
    serviceDirs,  \* api/modules: the modules with a service artifact
    taskOptions,  \* the `scheduled` option of each task the scheduler artifacts create
    config,       \* what Configuration.init() yields: [mongo, mode]
    dbBinding,    \* what the property `db` of the instance refers to
    hist,         \* history: per patch id, inserts that succeeded and bodies started
    Product,      \* the collection of the Product model: _id -> document
    made,         \* history: _id -> the fields the document was created with
    deletedIds,   \* history: the _ids whose document was deleted
    ret,          \* what the last operation on the Product model returned
    conf,         \* the fields of a Configuration object: key -> value
    expect,       \* history: key -> the value of the highest-priority source so far
    confPc        \* the source Configuration.init() applies next

vars == <<app, Patch, patchFiles, modelFiles, asyncModels, serviceDirs, taskOptions, config,
          dbBinding, hist,
          Product, made, deletedIds, ret, conf, expect, confPc>>
env == <<patchFiles, modelFiles, asyncModels, serviceDirs, taskOptions, config, dbBinding>>
store == <<Product, made, deletedIds, ret>>
settings == <<conf, expect, confPc>>
collab == <<store, settings>>

\* ------------------------------------------------------- pure functions
Undefined == "undefined"

\* A patch script is { id, path } (lines 445-448): it has no `version`.
Version(script) == Undefined

\* JavaScript's `<` on two undefined operands is false.
LessThan(x, y) == IF x = Undefined \/ y = Undefined THEN FALSE ELSE x < y

\* The comparator of line 450.
CompareScripts(a, b) == IF LessThan(Version(a), Version(b)) THEN -1 ELSE 1

\* Array.prototype.sort on a short array is a stable insertion sort: an element
\* moves left past the elements it compares below.
RECURSIVE InsertScript(_, _)
InsertScript(sorted, x) ==
    IF sorted = << >> THEN <<x>>
    ELSE IF CompareScripts(x, sorted[Len(sorted)]) < 0
         THEN Append(InsertScript(SubSeq(sorted, 1, Len(sorted) - 1), x), sorted[Len(sorted)])
         ELSE Append(sorted, x)

RECURSIVE SortScripts(_)
SortScripts(scripts) ==
    IF scripts = << >> THEN << >>
    ELSE InsertScript(SortScripts(SubSeq(scripts, 1, Len(scripts) - 1)), scripts[Len(scripts)])

\* find({}).sort({_id: -1}).limit(1), then `latestPatch ? latestPatch._id : 0`.
MaxId(coll) ==
    LET present == {id \in PatchIds : coll[id] # "none"}
    IN  IF present = {} THEN 0 ELSE CHOOSE m \in present : \A id \in present : id <= m

\* patchScripts.filter((script) => script.id > maxId)
FilterScripts(scripts, maxId) == SelectSeq(scripts, LAMBDA id : id > maxId)

Range(s) == {s[k] : k \in DOMAIN s}
InjectiveSeqs(S) ==
    UNION {{s \in [1..n -> S] : \A a, b \in 1..n : a # b => s[a] # s[b]} : n \in 0..Cardinality(S)}

\* ------------------------------------------------------- Configuration
\* A settings object has three keys; `log` may hold an object with the key
\* `level`.  A value is [kind, val, sub]: kind is absent, null, scalar, array
\* or object; val is the content of a scalar or an array; sub is the value of
\* `level` inside an object.
ConfKeys == {"host", "port", "log"}
AbsentLeaf == [kind |-> "absent", val |-> ""]
AbsentValue == [kind |-> "absent", val |-> "", sub |-> AbsentLeaf]
NewConf == [k \in ConfKeys |-> AbsentValue]

\* What a source named src can give for a key: each source writes its own
\* name as content, so that the origin of a value is visible.
Leaves(src) ==
    {AbsentLeaf, [kind |-> "null", val |-> ""],
     [kind |-> "scalar", val |-> src], [kind |-> "array", val |-> src]}
Plain(leaf) == [kind |-> leaf.kind, val |-> leaf.val, sub |-> AbsentLeaf]
SourceObjects(src) ==
    [host : {AbsentValue, Plain([kind |-> "scalar", val |-> src]), Plain([kind |-> "null", val |-> ""])},
     port : {AbsentValue, Plain([kind |-> "scalar", val |-> src])},
     log  : {Plain(l) : l \in Leaves(src)}
              \cup {[kind |-> "object", val |-> "", sub |-> l] : l \in Leaves(src)}]

\* `typeof x === 'object'` for a non-null x: objects and arrays.
TypeofObject(v) == v.kind \in {"object", "array"}

\* deepMerge (45-79) for one key of an object that holds no object: the value
\* a[key] has after deepMerge(a, b).
DeepMergeLeaf(aProp, bProp) ==
    IF aProp.kind = "absent" THEN bProp                               \* 56-58
    ELSE IF bProp.kind = "absent" THEN aProp                          \* 60-62
    ELSE IF aProp.kind = "null" \/ bProp.kind = "null" THEN bProp     \* 65-68
    ELSE IF aProp.kind = "array" /\ bProp.kind = "array" THEN aProp   \* 69-72: concat's result is dropped
    ELSE IF TypeofObject(aProp) /\ TypeofObject(bProp) THEN aProp     \* 73-76
    ELSE bProp                                                        \* 77

\* deepMerge (45-79) for one top-level key.  Two objects are merged key by
\* key; an array and an object are both `typeof 'object'`, so the properties
\* of b's are copied into a's, which stays what it was.
DeepMergeValue(aProp, bProp) ==
    IF aProp.kind = "absent" THEN bProp
    ELSE IF bProp.kind = "absent" THEN aProp
    ELSE IF aProp.kind = "null" \/ bProp.kind = "null" THEN bProp
    ELSE IF aProp.kind = "array" /\ bProp.kind = "array" THEN aProp
    ELSE IF aProp.kind = "object" /\ bProp.kind = "object"
         THEN [aProp EXCEPT !.sub = DeepMergeLeaf(aProp.sub, bProp.sub)]
    ELSE IF TypeofObject(aProp) /\ TypeofObject(bProp) THEN aProp
    ELSE bProp

DeepMerge(a, b) == [k \in ConfKeys |-> DeepMergeValue(a[k], b[k])]

\* The value a key has when the higher-priority source b is laid over a: b's
\* where b defines the key, objects being laid over key by key.
Overlay(a, b) ==
    [k \in ConfKeys |->
        IF b[k].kind = "absent" THEN a[k]
        ELSE IF a[k].kind = "object" /\ b[k].kind = "object"
             THEN [a[k] EXCEPT !.sub = IF b[k].sub.kind = "absent" THEN @ ELSE b[k].sub]
        ELSE b[k]]

\* Number(s) for the string of an environment variable: the number a decimal
\* numeral denotes, NaN for any other non-empty string.
Numerals == {"3000"}
NumberOf(str) == IF str \in Numerals THEN str ELSE "NaN"

\* process.env.HOST and process.env.PORT: unset, or a string.
HostVars == {"unset", "localhost", "3000"}
PortVars == {"unset", "3000"}

\* ------------------------------------------------------------ the state
\* The fields of a freshly constructed Application (lines 156-218).
NewApp ==
    [status      |-> "created",
     pc          |-> "idle",        \* where init() is suspended
     appLogger   |-> FALSE,         \* appLogger is null until #initLogger
     mongoClient |-> Undefined,     \* #mongoClient
     server      |-> "null",
     cron        |-> "null",
     tasks       |-> << >>,         \* cron.getTasks(): [running, starts] per task
     routers     |-> FALSE,         \* #loadRouters has registered the routers
     schedulers  |-> FALSE,         \* #runScheduledTasks has run the schedulers
     models      |-> {},
     modelInits  |-> [m \in 1..MaxModels |-> 0],
     modelPending |-> {},           \* models whose init hook was called and has not completed
     services    |-> {},
     svcStarted  |-> << >>,         \* services whose init hook was called, in order
     svcReady    |-> {},            \* services whose init hook has resolved
     sigint      |-> FALSE,         \* the SIGINT listener is registered
     scripts     |-> << >>,         \* patchScripts of the running #patchData
     idx         |-> 0,             \* position of the for-of loop in scripts
     maxId       |-> 0,
     \* where each destroy() call is suspended: the embedding program's, the
     \* one of #patchData's catch block, the one of the SIGINT listener
     dpc         |-> [ext |-> "idle", patch |-> "idle", sig |-> "idle"],
     \* history: the teardown steps each destroy() call has finished, in order
     teardown    |-> [ext |-> << >>, patch |-> << >>, sig |-> << >>],
     exitCode    |-> "none",        \* the status process.exit was called with: "0" or "1"
     sigSettled  |-> "none",        \* how the listener's destroy() had settled by then
     ws          |-> "none",        \* how the last 'request' handler of the bridge ended
     \* history of this process, for the properties
     initResult  |-> "none",        \* how the accepted init() call settled
     refused     |-> "none",        \* how the last init() call refused by the guard settled
     destroyed   |-> FALSE,         \* a destroy() that tore down has resolved
     patchFailed |-> FALSE,         \* a patch body of this init() threw
     \* history of the running #patchData, dropped with its frame
     executed    |-> << >>,         \* patch bodies started, in order
     dupSeen     |-> {}]            \* ids whose insertOne threw

\* config.mode: the three known values, and "other" for any other or missing one.
Modes == {"internal", "cron", "web", "other"}

\* options.scheduled of a task: true, false, or not given.
ScheduledOptions == {"true", "false", "undefined"}

Init ==
    /\ app = [i \in Instances |-> NewApp]
    /\ Patch = [id \in PatchIds |-> "none"]
    /\ patchFiles \in InjectiveSeqs(PatchIds)
    /\ modelFiles \in {1..n : n \in 0..MaxModels}
    /\ asyncModels \in SUBSET modelFiles
    /\ serviceDirs \in {1..n : n \in 0..MaxServices}
    /\ taskOptions \in UNION {[1..n -> ScheduledOptions] : n \in 0..MaxTasks}
    /\ config \in [mongo : BOOLEAN, mode : Modes]
    /\ dbBinding \in {"undefined", "mongo", "own"}
    /\ hist = [id \in PatchIds |-> [inserted |-> 0, started |-> 0]]
    /\ Product = << >>
    /\ made = << >>
    /\ deletedIds = {}
    /\ ret = [op |-> "none"]
    /\ conf = NewConf
    /\ expect = NewConf
    /\ confPc = "module"

\* ------------------------------------------------------------- helpers
\* `this.db` (lines 455, 467, 479) is no field of Application: it is undefined
\* unless the embedding subclass binds it, to the handle of #mongoClient
\* (this.mongo, null without a mongo section) or to a handle of its own.
DbDefined == dbBinding = "own" \/ (dbBinding = "mongo" /\ config.mongo)

\* Operations on a handle of #mongoClient throw once the client is closed.
DbUsable(a) == dbBinding = "own" \/ (dbBinding = "mongo" /\ a.mongoClient = "open")

\* Lines 268-271: how init() settles when the guard refuses the call: the
\* error is logged through appLogger, which is null until #initLogger has run.
GuardOutcome(a) == IF a.appLogger THEN "returned" ELSE "threw"

\* #patchData has returned: its locals are gone.
LeavePatch(a) ==
    [a EXCEPT !.scripts = << >>, !.idx = 0, !.maxId = 0,
              !.executed = << >>, !.dupSeen = {}]

\* init() rejects and puts the status back to 'created' on its way out.
RejectResetsStatus(a) ==
    [LeavePatch(a) EXCEPT !.pc = "idle", !.initResult = "rejected", !.status = "created"]

\* init() rejects: the error leaves the async function, nothing is reset.
Reject(a) == [LeavePatch(a) EXCEPT !.pc = "idle", !.initResult = "rejected"]

\* Lines 305-309: the final log line, then status = 'active'.
Activate(a) == [a EXCEPT !.status = "active", !.pc = "idle", !.initResult = "resolved"]

\* The hooks called in the import loop and again in the loop of line 390.
ModelInitCallsTwice(models, inits) ==
    [m \in DOMAIN inits |-> IF m \in models THEN inits[m] + 2 ELSE inits[m]]

\* Lines 390-392: the init hook of every loaded model is called, not awaited.
ModelInitCalls(models, inits) ==
    [m \in DOMAIN inits |-> IF m \in models THEN inits[m] + 1 ELSE inits[m]]

\* The for-of loop of #patchData moves to its next script, or the method returns.
NextScript(a) ==
    IF a.idx < Len(a.scripts)
    THEN [a EXCEPT !.idx = @ + 1, !.pc = "claim"]
    ELSE [a EXCEPT !.pc = "mode"]

\* The catch of line 472 without its return: the body runs all the same.
AfterInsertNoReturn(inserted) == "body"

\* Lines 472-475: insertOne threw => return; otherwise the body is run.
AfterInsert(inserted) == IF inserted THEN "body" ELSE "return"

\* Lines 284-291 and 438-455: the SIGINT listener, then the synchronous head of
\* #patchData up to the await of the find.
AfterServices(a) ==
    LET a1 == [a EXCEPT !.sigint = TRUE, !.scripts = SortScripts(patchFiles)]
    IN  IF Len(a1.scripts) = 0 THEN [a1 EXCEPT !.pc = "mode"]
        ELSE IF ~DbDefined THEN Reject(a1)
        ELSE [a1 EXCEPT !.pc = "find"]

\* Lines 328-330 without their condition: close() is called whether or not a
\* client exists.
AfterServerCloseAlways(a, c) == [a EXCEPT !.dpc[c] = "mongo"]

\* Lines 328-332 of destroy(): after the server part.
AfterServerClose(a, c) ==
    IF a.mongoClient # Undefined
    THEN [a EXCEPT !.dpc[c] = "mongo"]
    ELSE [a EXCEPT !.dpc[c] = "deps"]

\* A dispatcher that starts the tasks not created with scheduled: false.
StartedByDispatcherUnlessManual(option) == option # "false"

\* Line 553: the dispatcher calls task.start() on the tasks created with
\* scheduled: false.
StartedByDispatcher(option) == option = "false"

\* Lines 554-555: the timer of a task runs from its creation unless the task
\* was created with scheduled: false.
RunsFromCreation(option) == option # "false"

\* Lines 544-558: the schedulers create their tasks, then the forEach over
\* cron.getTasks().
ScheduledTasks ==
    [k \in DOMAIN taskOptions |->
        [running |-> RunsFromCreation(taskOptions[k]) \/ StartedByDispatcher(taskOptions[k]),
         starts  |-> IF StartedByDispatcher(taskOptions[k]) THEN 1 ELSE 0]]

\* Line 318: task.stop() on every task.
StopTasks(tasks) == [k \in DOMAIN tasks |-> [tasks[k] EXCEPT !.running = FALSE]]

\* Lines 287-288 with the catch handler exiting like the then handler.
ExitCodeAlwaysZero(outcome) == "0"

\* Lines 287-288: .then(() => process.exit(0)).catch(() => process.exit(1)).
ExitCode(outcome) == IF outcome = "resolved" THEN "0" ELSE "1"

\* The listener's destroy() has settled and its handler calls process.exit:
\* the process is gone, whatever it had pending.
Exit(a, outcome) ==
    [NewApp EXCEPT !.pc = "exited",
                   !.status = a.status,
                   !.sigint = a.sigint,
                   !.destroyed = a.destroyed,
                   !.exitCode = ExitCode(outcome),
                   !.sigSettled = outcome]

\* destroy() has resolved for its caller c; #patchData's catch block goes on
\* with the loop (line 488 is the last statement of the iteration).
DestroyReturn(a, c) ==
    LET a1 == [a EXCEPT !.dpc[c] = "idle"]
    IN  CASE c = "patch" -> NextScript(a1)
          [] c = "sig" -> Exit(a1, "resolved")
          [] OTHER -> a1

\* destroy() has rejected for its caller c; thrown inside #patchData's catch
\* block, the error leaves init().
DestroyThrow(a, c) ==
    LET a1 == [a EXCEPT !.dpc[c] = "idle"]
    IN  CASE c = "patch" -> Reject(a1)
          [] c = "sig" -> Exit(a1, "rejected")
          [] OTHER -> a1

\* destroy() without lines 321-326: the server is left as it is.
DestroyEnterLeavesServer(a, c) ==
    IF a.status \in {"created", "stopped"} THEN DestroyReturn(a, c)
    ELSE AfterServerClose(
             [a EXCEPT !.cron = IF @ = "null" THEN @ ELSE "stopped",
                       !.tasks = StopTasks(@),
                       !.teardown[c] = IF a.cron = "null" THEN << >> ELSE <<"tasks">>], c)

\* Lines 313-326: the guard and the synchronous head of destroy(): the tasks
\* are stopped, the sockets are disconnected and server.close() is awaited.
DestroyEnter(a, c) ==
    IF a.status \in {"created", "stopped"} THEN DestroyReturn(a, c)
    ELSE LET a1 == [a EXCEPT !.cron = IF @ = "null" THEN @ ELSE "stopped",
                             !.tasks = StopTasks(@),
                             !.teardown[c] = IF a.cron = "null" THEN << >> ELSE <<"tasks">>]
         IN  IF a1.server # "null"
             THEN [a1 EXCEPT !.teardown[c] = Append(@, "disconnect"), !.dpc[c] = "server"]
             ELSE AfterServerClose(a1, c)

\* ------------------------------------------- Configuration.init()
\* One source is applied (97-100): the object it gives is merged into the
\* Configuration object.
AddSource(at, next, src) ==
    /\ confPc = at
    /\ \E obj \in SourceObjects(src) :
          /\ conf' = DeepMerge(conf, obj)
          /\ expect' = Overlay(expect, obj)
    /\ confPc' = next
    /\ UNCHANGED <<app, Patch, hist, env, store>>

\* #addModuleConfig (110-118): this[name] = the content of the file `name`.
AddModuleConfig ==
    /\ confPc = "module"
    /\ \E obj \in SourceObjects("module") :
          /\ conf' = [k \in ConfKeys |-> IF obj[k].kind = "absent" THEN conf[k] ELSE obj[k]]
          /\ expect' = Overlay(expect, obj)
    /\ confPc' = "default"
    /\ UNCHANGED <<app, Patch, hist, env, store>>

\* #addEnvConfig (127-141): env/default, then env/<environment>.
AddEnvDefault == AddSource("default", "environment", "default")
AddEnvSpecific == AddSource("environment", "rc", "environment")

\* #addRcConfig (152-154).
AddRcConfig == AddSource("rc", "runtime", "rc")

\* #addRuntimeConfig (162-164).
AddRuntimeConfig == AddSource("runtime", "special", "runtime")

\* #addSpecialEnvVars (173-180); init() has resolved after it.
AddSpecialEnvVars ==
    /\ confPc = "special"
    /\ \E h \in HostVars, p \in PortVars :
          /\ conf' = [conf EXCEPT
                         !["host"] = IF h = "unset" THEN @
                                     ELSE Plain([kind |-> "scalar", val |-> NumberOf(h)]),
                         !["port"] = IF p = "unset" THEN @
                                     ELSE Plain([kind |-> "scalar", val |-> NumberOf(p)])]
          /\ expect' = [expect EXCEPT
                         !["host"] = IF h = "unset" THEN @
                                     ELSE Plain([kind |-> "scalar", val |-> h]),
                         !["port"] = IF p = "unset" THEN @
                                     ELSE Plain([kind |-> "scalar", val |-> p])]
    /\ confPc' = "done"
    /\ UNCHANGED <<app, Patch, hist, env, store>>

\* A Configuration object is constructed (88-93) and init() is called on it
\* (test.js 11-29); no Application is started.
InitConfig ==
    /\ Init
    /\ taskOptions = << >>
    /\ asyncModels = {}
    /\ config = [mongo |-> FALSE, mode |-> "internal"]
    /\ dbBinding = "undefined"
    /\ patchFiles = << >>
    /\ modelFiles = {}
    /\ serviceDirs = {}

NextConfig ==
    \/ AddModuleConfig
    \/ AddEnvDefault
    \/ AddEnvSpecific
    \/ AddRcConfig
    \/ AddRuntimeConfig
    \/ AddSpecialEnvVars

SpecConfig == InitConfig /\ [][NextConfig]_vars

\* ------------------------------------------------------------- actions
\* init() is called (lines 267-275).
InitCall(i) ==
    LET a == app[i] IN
    /\ a.pc # "exited"
    /\ IF a.status # "created" /\ a.status # "stopped"
       THEN app' = [app EXCEPT ![i].refused = GuardOutcome(a)]
       ELSE app' = [app EXCEPT ![i].status = "launching", ![i].pc = "config"]
    /\ UNCHANGED <<Patch, hist, env, collab>>

\* config.init() resolved; #initLogger; the MongoClient is created (275-279, 371).
ConfigDone(i) ==
    LET a == app[i] IN
    /\ a.pc = "config"
    /\ app' = [app EXCEPT ![i] =
                 IF config.mongo
                 THEN [a EXCEPT !.appLogger = TRUE, !.mongoClient = "connecting", !.pc = "mongo"]
                 ELSE [a EXCEPT !.appLogger = TRUE, !.pc = "deps"]]
    /\ UNCHANGED <<Patch, hist, env, collab>>

\* An awaited step of the bootstrap before #patchData throws (275-282).
InitAbort(i) ==
    LET a == app[i] IN
    /\ a.pc \in {"config", "mongo", "deps", "models", "services", "svc"}
    /\ app' = [app EXCEPT ![i] = Reject(a)]
    /\ UNCHANGED <<Patch, hist, env, collab>>

\* #initMongo: connect() resolved (372-375).
MongoDone(i) ==
    LET a == app[i] IN
    /\ a.pc = "mongo"
    /\ app' = [app EXCEPT ![i] = [a EXCEPT !.mongoClient = "open", !.pc = "deps"]]
    /\ UNCHANGED <<Patch, hist, env, collab>>

\* initDependencies() resolved (280).
DepsDone(i) ==
    LET a == app[i] IN
    /\ a.pc = "deps"
    /\ app' = [app EXCEPT ![i].pc = "models"]
    /\ UNCHANGED <<Patch, hist, env, collab>>

\* #loadModels: the imports, then the init hooks (378-393).  The promise a hook
\* returns is dropped: a hook whose body awaits is still running at the return.
LoadModels(i) ==
    LET a == app[i]
        loaded == a.models \cup modelFiles IN
    /\ a.pc = "models"
    /\ app' = [app EXCEPT ![i] =
                 [a EXCEPT !.models = loaded,
                           !.modelInits = ModelInitCalls(loaded, a.modelInits),
                           !.modelPending = loaded \cap asyncModels,
                           !.pc = "services"]]
    /\ UNCHANGED <<Patch, hist, env, collab>>

\* The init hook of a model, called at line 391 and left running, completes.
ModelHookDone(i) ==
    LET a == app[i] IN
    /\ a.pc # "exited"
    /\ \E m \in a.modelPending :
          app' = [app EXCEPT ![i].modelPending = @ \ {m}]
    /\ UNCHANGED <<Patch, hist, env, collab>>

\* The loop of lines 421-424 started without its await: every hook is called
\* before any has resolved.
HooksCalledAtOnce(services) == [k \in 1..Cardinality(services) |-> k]

\* The loop of lines 421-424 up to its first await: the hook of the first
\* service, in the order of the module structure, has been called.
HooksCalled(services) == <<1>>

\* #loadServices: the imports, then the first init hook is called (395-422).
LoadServices(i) ==
    LET a == app[i]
        a1 == [a EXCEPT !.services = @ \cup serviceDirs] IN
    /\ a.pc = "services"
    /\ app' = [app EXCEPT ![i] =
                 IF a1.services = {} THEN AfterServices(a1)
                 ELSE [a1 EXCEPT !.svcStarted = HooksCalled(a1.services), !.pc = "svc"]]
    /\ UNCHANGED <<Patch, hist, env, collab>>

\* A service's init hook resolved; the next one is called (421-424).
ServiceDone(i) ==
    LET a == app[i]
        k == a.svcStarted[Len(a.svcStarted)]
        a1 == [a EXCEPT !.svcReady = @ \cup {k}] IN
    /\ a.pc = "svc"
    /\ app' = [app EXCEPT ![i] =
                 IF k + 1 \in a.services
                 THEN [a1 EXCEPT !.svcStarted = Append(@, k + 1)]
                 ELSE AfterServices(a1)]
    /\ UNCHANGED <<Patch, hist, env, collab>>

\* The find of the latest Patch record settled (455-462).
PatchFind(i) ==
    LET a == app[i]
        found == FilterScripts(a.scripts, MaxId(Patch)) IN
    /\ a.pc = "find"
    /\ app' = [app EXCEPT ![i] =
                 IF ~DbUsable(a) THEN Reject(a)
                 ELSE IF found = << >>
                      THEN [a EXCEPT !.maxId = MaxId(Patch), !.scripts = found, !.pc = "mode"]
                      ELSE [a EXCEPT !.maxId = MaxId(Patch), !.scripts = found,
                                     !.idx = 1, !.pc = "claim"]]
    /\ UNCHANGED <<Patch, hist, env, collab>>

\* An insert that replaces a record which is not completed.
ClaimInsertedReclaim(usable, record) == usable /\ record # "completed"

\* insertOne({_id: script.id, ...}) (467-471): it succeeds when the handle is
\* usable and no record with this _id exists, whatever the record's status.
ClaimInserted(usable, record) == usable /\ record = "none"

\* The script is imported and claimed: insertOne with the id as unique _id; on
\* success the body is started (465-478).
PatchClaim(i) ==
    LET a == app[i]
        id == a.scripts[a.idx]
        inserted == ClaimInserted(DbUsable(a), Patch[id]) IN
    /\ a.pc = "claim"
    /\ Patch' = IF inserted THEN [Patch EXCEPT ![id] = "pending"] ELSE Patch
    /\ IF AfterInsert(inserted) = "body"
       THEN /\ app' = [app EXCEPT ![i] =
                        [a EXCEPT !.executed = Append(@, id), !.pc = "body"]]
            /\ hist' = [hist EXCEPT ![id].inserted = IF inserted THEN @ + 1 ELSE @,
                                    ![id].started = @ + 1]
       ELSE /\ app' = [app EXCEPT ![i] =
                        [a EXCEPT !.dupSeen = @ \cup {id}, !.pc = "mode"]]
            /\ UNCHANGED hist
    /\ UNCHANGED <<env, collab>>

\* The body resolved and the record is set to completed (478-484); an updateOne
\* that throws lands in the same catch as a failing body.
PatchBodyOk(i) ==
    LET a == app[i]
        id == a.scripts[a.idx] IN
    /\ a.pc = "body"
    /\ IF DbUsable(a)
       THEN /\ Patch' = [Patch EXCEPT ![id] = IF @ = "none" THEN @ ELSE "completed"]
            /\ app' = [app EXCEPT ![i] = NextScript(a)]
       ELSE /\ Patch' = Patch
            /\ app' = [app EXCEPT ![i] =
                        DestroyEnter([a EXCEPT !.patchFailed = TRUE, !.pc = "destroy"], "patch")]
    /\ UNCHANGED <<hist, env, collab>>

\* The body threw: the error is logged and destroy() is awaited (485-489).
PatchBodyFail(i) ==
    LET a == app[i]
        id == a.scripts[a.idx] IN
    /\ a.pc = "body"
    /\ app' = [app EXCEPT ![i] =
                 DestroyEnter([a EXCEPT !.patchFailed = TRUE, !.pc = "destroy"], "patch")]
    /\ UNCHANGED <<Patch, hist, env, collab>>

\* The switch of lines 293-303 with the break of 'internal' left out: the case
\* falls through to 'cron'.
ModeHandlerFallThrough(mode) ==
    CASE mode = "internal" -> "cron"
      [] mode = "cron" -> "cron"
      [] OTHER -> "web"

\* The switch of lines 293-303: the handler a mode selects.
ModeHandler(mode) ==
    CASE mode = "internal" -> "none"
      [] mode = "cron" -> "cron"
      [] OTHER -> "web"

\* The mode switch (293-303) up to the first await of the mode's handler.
ModeStart(i) ==
    LET a == app[i]
        handler == ModeHandler(config.mode) IN
    /\ a.pc = "mode"
    /\ app' = [app EXCEPT ![i] =
                 CASE handler = "none" -> Activate(LeavePatch(a))
                   [] handler = "cron" ->
                        [LeavePatch(a) EXCEPT !.cron = "loaded", !.pc = "cron"]
                   [] OTHER -> [LeavePatch(a) EXCEPT !.server = "created", !.pc = "web"]]
    /\ UNCHANGED <<Patch, hist, env, collab>>

\* The mode's handler resolved: the server listens, or the tasks are started
\* (530-537, 552-559); then lines 305-309.  A server that a destroy() closed
\* in the meantime refuses to listen.
ModeDone(i) ==
    LET a == app[i] IN
    /\ a.pc \in {"cron", "web"}
    /\ app' = [app EXCEPT ![i] =
                 IF a.pc = "web" /\ a.server = "closed"
                 THEN Reject(a)
                 ELSE IF a.pc = "web"
                 THEN Activate([a EXCEPT !.server = "listening", !.routers = TRUE])
                 ELSE Activate([a EXCEPT !.cron = "running", !.schedulers = TRUE,
                                         !.tasks = ScheduledTasks])]
    /\ UNCHANGED <<Patch, hist, env, collab>>

\* destroy() is called by the embedding program, which awaits its calls: no
\* init() and no other destroy() of the instance is pending (test.js 49-55).
DestroyCall(i) ==
    LET a == app[i] IN
    /\ a.pc = "idle"
    /\ a.dpc.ext = "idle"
    /\ app' = [app EXCEPT ![i] = DestroyEnter(a, "ext")]
    /\ UNCHANGED <<Patch, hist, env, collab>>

\* An awaited step of a destroy() call resolved (324-334): server.close(),
\* then io.close(); the client's close(); destroyDependencies(), then the log line.
DestroyStep(i, c) ==
    LET a == app[i] IN
    /\ a.dpc[c] # "idle"
    /\ app' = [app EXCEPT ![i] =
                 CASE a.dpc[c] = "server" ->
                        AfterServerClose([a EXCEPT !.server = "closed",
                                                   !.teardown[c] = @ \o <<"server", "io">>], c)
                   [] a.dpc[c] = "mongo" ->
                        [a EXCEPT !.mongoClient = "closed", !.dpc[c] = "deps",
                                  !.teardown[c] = Append(@, "mongo")]
                   [] OTHER ->
                        IF a.appLogger
                        THEN DestroyReturn([a EXCEPT !.destroyed = TRUE,
                                                     !.teardown[c] = @ \o <<"deps", "log">>], c)
                        ELSE DestroyThrow([a EXCEPT !.teardown[c] = Append(@, "deps")], c)]
    /\ UNCHANGED <<Patch, hist, env, collab>>

\* An awaited step of a destroy() call rejects: server.close(), the client's
\* close() or destroyDependencies() (326-332).
DestroyFail(i, c) ==
    LET a == app[i] IN
    /\ a.dpc[c] # "idle"
    /\ app' = [app EXCEPT ![i] = DestroyThrow(a, c)]
    /\ UNCHANGED <<Patch, hist, env, collab>>

\* The process receives SIGINT and the listener of lines 285-289 calls
\* destroy(); a further signal while that call is pending is not modelled.
Sigint(i) ==
    LET a == app[i] IN
    /\ a.sigint
    /\ a.pc # "exited"
    /\ a.dpc.sig = "idle"
    /\ app' = [app EXCEPT ![i] = DestroyEnter(a, "sig")]
    /\ UNCHANGED <<Patch, hist, env, collab>>

\* The process ends (exit or crash) and a new one constructs its Application
\* (224-265); the Patch collection stays.
Restart(i) ==
    /\ app[i] # NewApp
    /\ app' = [app EXCEPT ![i] = NewApp]
    /\ UNCHANGED <<Patch, hist, env, collab>>

\* The steps of process i.
Step(i) ==
    \/ InitCall(i)
    \/ ConfigDone(i)
    \/ InitAbort(i)
    \/ MongoDone(i)
    \/ DepsDone(i)
    \/ LoadModels(i)
    \/ LoadServices(i)
    \/ ServiceDone(i)
    \/ PatchFind(i)
    \/ PatchClaim(i)
    \/ PatchBodyOk(i)
    \/ PatchBodyFail(i)
    \/ ModeStart(i)
    \/ ModeDone(i)
    \/ DestroyCall(i)
    \/ \E c \in {"ext", "patch"} : DestroyStep(i, c)
    \/ Restart(i)

\* One process, restarted at will, over every directory layout and
\* configuration; the init hooks of the models are the one of
\* SimpleMongoModel (81-83), which has completed when it returns.
Next == Step(1)

InitSync ==
    /\ Init
    /\ taskOptions = << >>
    /\ asyncModels = {}

Spec == InitSync /\ [][Next]_vars

\* One process over an application whose models may have init hooks that
\* await, with one patch file and every model and service present.
InitBoot ==
    /\ Init
    /\ taskOptions = << >>
    /\ dbBinding = "mongo"
    /\ config.mongo
    /\ patchFiles = <<1>>
    /\ modelFiles = 1..MaxModels
    /\ serviceDirs = 1..MaxServices

NextBoot ==
    \/ Step(1)
    \/ ModelHookDone(1)

SpecBoot == InitBoot /\ [][NextBoot]_vars

\* A deployment: every process runs the same application (default mode, a mongo
\* section) against the one Patch collection.  The application has no models
\* and no services, no bootstrap step before #patchData throws, and the
\* embedding program calls no destroy() and calls init() once per process:
\* none of these touches the collection.
InitMig ==
    /\ Init
    /\ taskOptions = << >>
    /\ asyncModels = {}
    /\ config = [mongo |-> TRUE, mode |-> "web"]
    /\ modelFiles = {}
    /\ serviceDirs = {}

MigStep(i) ==
    \/ (app[i].status = "created" /\ InitCall(i))
    \/ ConfigDone(i)
    \/ MongoDone(i)
    \/ DepsDone(i)
    \/ LoadModels(i)
    \/ LoadServices(i)
    \/ PatchFind(i)
    \/ PatchClaim(i)
    \/ PatchBodyOk(i)
    \/ PatchBodyFail(i)
    \/ ModeStart(i)
    \/ ModeDone(i)
    \/ DestroyStep(i, "patch")
    \/ Restart(i)

NextMig == \E i \in Instances : MigStep(i)

SpecMig == InitMig /\ [][NextMig]_vars

\* -------------------------------------------------- the realtime bridge
\* What a socket.io client can send as the arguments of a 'request' event.
Messages == {"object", "primitive", "null", "undefined"}
Replies == {"function", "undefined"}

\* The destructuring of lines 49-54: reading a property of null or undefined
\* throws a TypeError; a primitive yields undefined for every property.
DestructureThrows(message) == message \in {"null", "undefined"}

\* The 'request' handler (48-80).  The destructuring stands before the try
\* block; the inject, the parsing and the call of reply stand inside it, and
\* its catch logs.  The result is how the async handler ends.
BridgeHandler(message, reply, injectOk) ==
    IF DestructureThrows(message) THEN "escaped"
    ELSE IF ~injectOk THEN "logged"
    ELSE IF reply # "function" THEN "logged"
    ELSE "replied"

\* A connected client emits 'request' (47-48); the server is listening.
SocketRequest(i) ==
    LET a == app[i] IN
    /\ a.server = "listening"
    /\ \E message \in Messages, reply \in Replies, injectOk \in BOOLEAN :
          app' = [app EXCEPT ![i].ws = BridgeHandler(message, reply, injectOk)]
    /\ UNCHANGED <<Patch, hist, env, collab>>

\* One process under outside events (interrupt signals, socket messages) and
\* failing teardown steps, over every configuration and binding of `db`, with
\* one patch file and every model and service present.
InitEvt ==
    /\ Init
    /\ taskOptions = << >>
    /\ asyncModels = {}
    /\ patchFiles = <<1>>
    /\ modelFiles = 1..MaxModels
    /\ serviceDirs = 1..MaxServices

NextEvt ==
    \/ Step(1)
    \/ Sigint(1)
    \/ SocketRequest(1)
    \/ DestroyStep(1, "sig")
    \/ \E c \in {"ext", "patch", "sig"} : DestroyFail(1, c)

SpecEvt == InitEvt /\ [][NextEvt]_vars

\* One process with one patch, every model and every service, in any mode and
\* with any database binding: init() and destroy() called from outside only.
SpecDestroy == InitEvt /\ [][Next]_vars

\* ------------------------------------------------------ the Product model
DocIds == 1..MaxDocs
Titles == {"Box", "Bag"}

\* What the test program passes to Product.create: a title, with or without a price.
CreateArgs == [title : Titles] \cup [title : Titles, price : {5}]

\* What is passed as an id: a 24-digit hex string or an ObjectId.
IdLikes == [form : {"string", "ObjectId"}, n : DocIds]

\* ObjectId(id): the ObjectId a hex string names, or the ObjectId itself.
ObjectId(idLike) == idLike.n

\* Product.create({ title, price = 0 }) (lines 575-577): the document inserted.
ProductDoc(args) ==
    [title |-> args.title, price |-> IF "price" \in DOMAIN args THEN args.price ELSE 0]

\* insertOne: the driver gives the document an _id no document has had.
InsertedId == Cardinality(DOMAIN made) + 1

\* An entity built by a constructor that does not copy the document.
EntityBlank(id, doc) == [id |-> 0, title |-> Undefined, price |-> 0]

\* new Product(doc): Object.assign(this, doc), the setter of _id filling id
\* (lines 10-12, 570-573).
Entity(id, doc) == [id |-> id, title |-> doc.title, price |-> doc.price]

\* findOne({ _id }) then `doc ? new this(doc) : null` (98-101); null is the
\* empty sequence.
FindOne(coll, id) == IF id \in DOMAIN coll THEN <<Entity(id, coll[id])>> ELSE << >>

\* The collection is bound by the init hook of the model and its client is connected.
ModelUsable == 1 \in app[1].models /\ app[1].modelInits[1] > 0 /\ app[1].mongoClient = "open"

\* Product.create(args): insertOne, then findById(insertedId) (89-92, 575-577).
ModelCreate ==
    /\ ModelUsable
    /\ InsertedId \in DocIds
    /\ \E args \in CreateArgs :
          LET id == InsertedId
              coll == [d \in DOMAIN Product \cup {id} |->
                          IF d = id THEN ProductDoc(args) ELSE Product[d]] IN
          /\ Product' = coll
          /\ made' = [d \in DOMAIN made \cup {id} |->
                          IF d = id
                          THEN [title |-> args.title,
                                price |-> IF "price" \in DOMAIN args THEN args.price ELSE 0]
                          ELSE made[d]]
          /\ ret' = [op |-> "create", id |-> id, value |-> FindOne(coll, id)]
    /\ UNCHANGED <<app, Patch, hist, env, deletedIds, settings>>

\* Product.findById(id) (98-101).
ModelFindById ==
    /\ ModelUsable
    /\ \E idLike \in IdLikes :
          ret' = [op |-> "findById", id |-> ObjectId(idLike),
                  value |-> FindOne(Product, ObjectId(idLike))]
    /\ UNCHANGED <<app, Patch, hist, env, Product, made, deletedIds, settings>>

\* entity.delete() on an entity the program holds: deleteOne({ _id: this.id }),
\* then deletedCount === 1 (70-73).
ModelDelete ==
    /\ ModelUsable
    /\ \E id \in DOMAIN made :
          /\ Product' = [d \in DOMAIN Product \ {id} |-> Product[d]]
          /\ deletedIds' = IF id \in DOMAIN Product THEN deletedIds \cup {id} ELSE deletedIds
          /\ ret' = [op |-> "delete", id |-> id,
                      value |-> Cardinality(DOMAIN Product \cap {id}) = 1]
    /\ UNCHANGED <<app, Patch, hist, env, made, settings>>

\* The test program (test.js 58-82): one Application over an application
\* directory with the Product model and a mongo section, in internal mode;
\* init(), operations on the model, destroy().
InitModel ==
    /\ Init
    /\ taskOptions = << >>
    /\ asyncModels = {}
    /\ config = [mongo |-> TRUE, mode |-> "internal"]
    /\ dbBinding = "mongo"
    /\ patchFiles = << >>
    /\ modelFiles = {1}
    /\ serviceDirs = {}

NextModel ==
    \/ InitCall(1)
    \/ ConfigDone(1)
    \/ MongoDone(1)
    \/ DepsDone(1)
    \/ LoadModels(1)
    \/ LoadServices(1)
    \/ ModeStart(1)
    \/ ModelCreate
    \/ ModelFindById
    \/ ModelDelete
    \/ DestroyCall(1)
    \/ DestroyStep(1, "ext")

SpecModel == InitModel /\ [][NextModel]_vars

\* One process in cron mode over an application whose scheduler artifacts
\* create tasks, with one patch file and every model and service present.
InitCron ==
    /\ Init
    /\ asyncModels = {}
    /\ config.mode = "cron"
    /\ patchFiles = <<1>>
    /\ modelFiles = 1..MaxModels
    /\ serviceDirs = 1..MaxServices

NextCron == Step(1)

SpecCron == InitCron /\ [][NextCron]_vars

\* ------------------------------------------------------------ properties
\* The ids of S as an ascending sequence.
RECURSIVE Ascending(_)
Ascending(S) ==
    IF S = {} THEN << >>
    ELSE LET least == CHOOSE x \in S : \A y \in S : x <= y
         IN  <<least>> \o Ascending(S \ {least})

\* C1: when processes race for the same unapplied patch id, the body of that
\* id is started by one of them only; a process whose insertOne threw has not
\* run the body, its #patchData has returned and its init() has not failed;
\* and where the throw was the duplicate key, the body was started exactly
\* once (by the process that created the record).
C1_RaceHasOneWinner ==
    /\ \A id \in PatchIds : hist[id].started <= 1
    /\ \A i \in Instances : \A id \in app[i].dupSeen :
          /\ id \notin Range(app[i].executed)
          /\ app[i].pc = "mode"
          /\ app[i].initResult = "none"
          /\ Patch[id] # "none" => hist[id].started = 1

\* Two processes both hold id in their filtered list; one started its body,
\* the other got the duplicate key and returned.
C1_Witness ==
    \E i, j \in Instances : \E id \in PatchIds :
        /\ i # j
        /\ id \in Range(app[i].scripts) /\ id \in Range(app[j].scripts)
        /\ id \in Range(app[i].executed)
        /\ id \in app[j].dupSeen
        /\ Patch[id] # "none"

\* C2: over all runs, restarts and interleavings, a patch id has at most one
\* Patch record ever created and its body is started at most once; a process
\* runs only bodies whose id is above the highest record its find has seen.
C2_AtMostOnce ==
    /\ \A id \in PatchIds :
          /\ hist[id].inserted <= 1
          /\ hist[id].started <= 1
          /\ (Patch[id] = "none") = (hist[id].inserted = 0)
    /\ \A i \in Instances : \A k \in DOMAIN app[i].executed :
          app[i].executed[k] > app[i].maxId

\* Every patch file was applied by earlier runs; a fresh process finds the
\* highest record and its #patchData returns having run nothing.
C2_Witness ==
    /\ patchFiles # << >>
    /\ \A id \in Range(patchFiles) : hist[id].started = 1
    /\ \E i \in Instances :
          /\ app[i].pc = "mode"
          /\ app[i].maxId = MaxId(Patch) /\ app[i].maxId > 0
          /\ app[i].executed = << >>
          /\ app[i].dupSeen = {}
          /\ ~app[i].patchFailed

\* C3: one process, no failing body: when #patchData has returned, the bodies
\* it started are the patch files with an id above the persisted maximum, in
\* ascending id order, each with a completed record.
C3_AscendingOrder ==
    \A i \in Instances :
        (app[i].pc = "mode" /\ ~app[i].patchFailed /\ app[i].dupSeen = {}) =>
            /\ app[i].executed =
                   Ascending({id \in Range(patchFiles) : id > app[i].maxId})
            /\ \A id \in Range(app[i].executed) : Patch[id] = "completed"

\* C4: once a patch body of a process has thrown, its destroy() runs to the
\* end and the process starts (claims and executes) no further patch body.
C4_NoPatchAfterFailure ==
    [][\A i \in Instances : app[i].patchFailed =>
          /\ Len(app'[i].executed) <= Len(app[i].executed)
          /\ (app[i].pc # "destroy" =>
                 app[i].destroyed /\ app[i].mongoClient \in {Undefined, "closed"})]_vars

\* C5: after a patch body has thrown, init() starts no mode handler (no
\* server, no scheduler) and the status does not become active.
C5_NoModeAfterFailure ==
    \A i \in Instances : app[i].patchFailed =>
        /\ app[i].server = "null"
        /\ app[i].cron = "null"
        /\ app[i].status # "active"

\* C6: an init() call on a launching or active instance returns without
\* throwing, runs no bootstrap step and leaves status, models and services as
\* they are.
C6_SecondInitIsNoOp ==
    [][\A i \in Instances :
          (app[i].status \in {"launching", "active"} /\ InitCall(i)) =>
              /\ app'[i].refused = "returned"
              /\ app'[i].status = app[i].status
              /\ app'[i].pc = app[i].pc
              /\ app'[i].models = app[i].models
              /\ app'[i].modelInits = app[i].modelInits
              /\ app'[i].services = app[i].services]_vars

\* C7: destroy() on a created instance changes nothing, and so does a
\* destroy() call that follows a completed destroy() of an active instance.
C7_DestroyIdempotent ==
    [][\A i \in Instances :
          (/\ DestroyCall(i)
           /\ \/ app[i].status = "created"
              \/ app[i].status = "active" /\ app[i].destroyed /\ ~app[i].patchFailed) =>
              app'[i] = app[i]]_vars

\* C8: once a destroy() of a launching or active instance has completed, the
\* status is stopped; and the status is not stopped while a destroy() call is
\* still tearing down.
C8_StoppedAfterDestroy ==
    \A i \in Instances :
        /\ (app[i].destroyed /\ ~app[i].patchFailed /\ app[i].dpc.ext = "idle") =>
               app[i].status = "stopped"
        /\ app[i].status = "stopped" =>
               (app[i].dpc.ext = "idle" /\ app[i].dpc.patch = "idle")

\* C9: after init() and then destroy() have completed on an instance, a
\* further init() call is accepted: the status becomes launching.
C9_Restartable ==
    [][\A i \in Instances :
          (/\ InitCall(i)
           /\ app[i].initResult = "resolved"
           /\ app[i].destroyed /\ ~app[i].patchFailed
           /\ app[i].dpc.ext = "idle") =>
              app'[i].status = "launching"]_vars

\* C10: during one init() the init hook of every discovered model is called
\* exactly once, and all of these calls precede the first service init hook.
C10_ModelHooksOnceBeforeServices ==
    \A i \in Instances :
        /\ \A m \in DOMAIN app[i].modelInits :
              /\ app[i].modelInits[m] <= 1
              /\ m \notin modelFiles => app[i].modelInits[m] = 0
        /\ app[i].svcStarted # << >> =>
              \A m \in modelFiles : app[i].modelInits[m] = 1

\* A layout with a model and a service: the first service hook has been called.
C10_Witness ==
    \E i \in Instances :
        /\ modelFiles # {}
        /\ app[i].svcStarted # << >>
        /\ \A m \in modelFiles : app[i].modelInits[m] = 1

\* C11: the init hooks of the services run one at a time, in the order of the
\* module structure: when a hook has been called, the hook of every service
\* called before it has resolved, and the calls follow the order 1, 2, ...
C11_ServiceHooksSequential ==
    \A i \in Instances :
        LET a == app[i] IN
        /\ \A k \in 1..Len(a.svcStarted) : a.svcStarted[k] = k
        /\ \A k \in 1..(Len(a.svcStarted) - 1) : a.svcStarted[k] \in a.svcReady
        /\ a.svcReady \subseteq Range(a.svcStarted)

\* The second hook has been called, after the first one resolved.
C11_Witness ==
    \E i \in Instances :
        /\ app[i].pc = "svc"
        /\ Len(app[i].svcStarted) = 2
        /\ app[i].svcReady = {1}

\* C12: init() dispatches on config.mode: internal starts neither a server nor
\* schedulers; cron runs the schedulers and starts no server; web and any other
\* value start the server and load the routers.  Routers are loaded in no
\* other mode than web (or its default), schedulers in no other mode than cron.
C12_ModeDispatch ==
    \A i \in Instances :
        LET a == app[i] IN
        /\ config.mode = "internal" =>
              a.server = "null" /\ a.cron = "null" /\ ~a.routers /\ ~a.schedulers
        /\ config.mode = "cron" => a.server = "null" /\ ~a.routers
        /\ config.mode \in {"web", "other"} => a.cron = "null" /\ ~a.schedulers
        /\ a.initResult = "resolved" =>
              /\ config.mode = "cron" => a.schedulers
              /\ config.mode \in {"web", "other"} => a.routers /\ a.server # "null"

\* init() has resolved under a mode that is none of the three names: the
\* default branch has started the server and loaded the routers.
C12_Witness ==
    /\ config.mode = "other"
    /\ app[1].initResult = "resolved"
    /\ app[1].server = "listening"
    /\ app[1].routers

\* C13: init() creates and connects the database client exactly when the
\* configuration has a mongo section; a client is closed by no step other than
\* a destroy() call's close; and destroy() calls close only on a client that
\* init() has created.
C13_PastConfig == {"deps", "models", "services", "svc", "find", "claim", "body", "mode", "cron", "web"}

C13_MongoLifecycle ==
    /\ [](\A i \in Instances :
            LET a == app[i] IN
            /\ a.mongoClient # Undefined => config.mongo
            /\ (a.pc \in C13_PastConfig \/ a.initResult = "resolved") /\ config.mongo
                   => a.mongoClient \in {"open", "closed"}
            /\ \A c \in DOMAIN a.dpc : a.dpc[c] = "mongo" => a.mongoClient # Undefined)
    /\ [][\A i \in Instances :
            LET a == app[i]
                b == app'[i] IN
            /\ a.mongoClient = Undefined /\ b.mongoClient # Undefined
                   => a.pc = "config" /\ b.pc = "mongo" /\ b.mongoClient = "connecting"
            /\ a.mongoClient # "closed" /\ b.mongoClient = "closed"
                   => \E c \in DOMAIN a.dpc : a.dpc[c] = "mongo" /\ b.dpc[c] = "deps"]_vars

\* A destroy() call has closed the connection that init() opened.
C13_Witness ==
    \E i \in Instances :
        /\ app[i].mongoClient = "closed"
        /\ app[i].destroyed
        /\ app[i].initResult = "resolved"

\* The record of id is pending and no process is running its body: the body
\* failed, or its process crashed.
LeftPending(id) ==
    /\ Patch[id] = "pending"
    /\ \A i \in Instances :
          ~(app[i].pc = "body" /\ app[i].scripts[app[i].idx] = id)

\* C14: a Patch record left pending is never claimed again and its body is
\* never run again, by any process and any later init(): no insert of its id
\* succeeds, no body of it starts, and the record stays pending.
C14_PendingNeverReclaimed ==
    [][\A id \in PatchIds :
          LeftPending(id) => Patch'[id] = "pending" /\ hist'[id] = hist[id]]_vars

\* A record is left pending, and a process whose init() read the collection
\* with that record in it has gone through #patchData without running a body.
C14_Witness ==
    \E id \in PatchIds, i \in Instances :
        /\ LeftPending(id)
        /\ hist[id].started = 1
        /\ app[i].pc = "mode"
        /\ app[i].maxId >= id
        /\ app[i].executed = << >>

\* C15: once the listener is registered, SIGINT runs destroy() and the process
\* exits only from the listener, after that destroy() has settled: with status
\* 0 when it resolved, having torn the instance down, and with status 1 when
\* it rejected.
C15_SigintExit ==
    /\ [](\A i \in Instances :
            LET a == app[i] IN
            /\ a.exitCode = "0" <=> a.sigSettled = "resolved"
            /\ a.exitCode = "1" <=> a.sigSettled = "rejected"
            /\ a.exitCode = "0" => a.destroyed
            /\ a.dpc.sig # "idle" => a.sigint)
    /\ [][\A i \in Instances :
            LET a == app[i]
                b == app'[i] IN
            /\ a.sigint /\ a.dpc.sig = "idle" /\ b.dpc.sig # "idle"
                   => b.dpc.sig \in {"server", "mongo", "deps"} /\ b.exitCode = "none"
            /\ a.exitCode = "none" /\ b.exitCode # "none"
                   => a.dpc.sig # "idle" /\ b.dpc.sig = "idle"]_vars

\* The process has exited with status 1: the destroy() of the listener rejected.
C15_Witness ==
    \E i \in Instances :
        /\ app[i].exitCode = "1"
        /\ app[i].sigSettled = "rejected"

\* C16: whatever a 'request' message carries, an error raised while handling
\* it is caught in the handler and logged: the handler ends by replying or by
\* logging, and no error leaves it.
C16_BridgeCatchesAll ==
    \A i \in Instances : app[i].ws # "escaped"

\* C17: under any sequence of create, findById and delete on the model:
\* findById of an id never created, or deleted, returns null; from the create
\* that returned an entity until the delete, findById of its id returns an
\* entity with the field values it was created with; delete returns true
\* exactly when it removed a stored document.
C17_ModelCollection ==
    /\ [](/\ ret.op = "findById" =>
               IF ret.id \in DOMAIN made /\ ret.id \notin deletedIds
               THEN ret.value = <<[id |-> ret.id, title |-> made[ret.id].title,
                                   price |-> made[ret.id].price]>>
               ELSE ret.value = << >>
          /\ ret.op = "create" =>
               ret.value = <<[id |-> ret.id, title |-> made[ret.id].title,
                              price |-> made[ret.id].price]>>)
    /\ [][ret'.op = "delete" /\ <<Product, ret>>' # <<Product, ret>> =>
            (ret'.value <=> ret'.id \in DOMAIN Product /\ ret'.id \notin DOMAIN Product')]_vars

\* A document was created without a price, found, deleted, and the last
\* findById of its id returned null.
C17_Witness ==
    /\ ret.op = "findById"
    /\ ret.id \in deletedIds
    /\ made[ret.id].price = 0
    /\ ret.value = << >>
    /\ Product # << >>

\* C18: the sources are applied in increasing priority; before init() no key
\* given by a file is set, and after init() every key, at every depth of the
\* merged objects, has the value of the highest-priority source that defines
\* it, the keys that only lower sources define being kept.
C18_HighestPriorityWins ==
    /\ confPc = "module" => conf = NewConf
    /\ confPc = "done" => conf = expect

\* Process i takes the step in which its insertOne fails on an existing record.
DuplicateStep(i) ==
    /\ app[i].pc = "claim"
    /\ Patch[app[i].scripts[app[i].idx]] # "none"
    /\ app'[i] # app[i]
    /\ app'[i].status # "created"

\* C19: when the claim of a patch id fails on a duplicate key, the process
\* goes on to the next script of its filtered list and tries to claim it; it
\* does not give up the scripts that remain.
C19_MovesOnAfterDuplicate ==
    [][\A i \in Instances :
          DuplicateStep(i) /\ app[i].idx < Len(app[i].scripts)
             => app'[i].pc = "claim" /\ app'[i].idx = app[i].idx + 1]_vars

\* C19, as the code has it: when the claim of a patch id fails on a duplicate
\* key, #patchData returns at once, without error and without running a body:
\* the scripts that remain in the list are not attempted by this init().
C19_ReturnsAfterDuplicate ==
    [][\A i \in Instances :
          DuplicateStep(i)
             => /\ app'[i].pc = "mode"
                /\ app'[i].idx = app[i].idx
                /\ app'[i].executed = app[i].executed
                /\ app'[i].initResult = app[i].initResult
                /\ Patch' = Patch
                /\ hist' = hist]_vars

\* A process has left #patchData on a duplicate key with a script of its list
\* still unattempted.
C19_Witness ==
    \E i \in Instances :
        /\ app[i].pc = "mode"
        /\ app[i].dupSeen # {}
        /\ app[i].idx < Len(app[i].scripts)
        /\ \E j \in Instances \ {i} : app[j].executed # << >>

\* C20: the phases of init() do not overlap: when the Service Loader starts,
\* the init hook of every model has completed, asynchronous ones included; when
\* #patchData reads the Patch collection, every service hook has completed;
\* when a mode handler starts, #patchData has returned or thrown.
C20_PhasesDoNotOverlap ==
    \A i \in Instances :
        LET a == app[i] IN
        /\ Len(a.svcStarted) > 0 => a.modelPending = {}
        /\ a.pc \in {"find", "claim", "body", "destroy"} => a.svcReady = a.services
        /\ a.pc \in {"cron", "web"} => a.scripts = << >> /\ a.dpc.patch = "idle"

\* The teardown steps in the order the claim gives them.
TeardownOrder == <<"tasks", "disconnect", "server", "io", "mongo", "deps", "log">>
Rank(step) == CHOOSE k \in DOMAIN TeardownOrder : TeardownOrder[k] = step

\* C21: a destroy() call on a launching or active instance finishes its steps
\* in the order: stop the tasks (if a scheduler runtime is set), disconnect the
\* sockets, close the server, close the realtime layer (if a server is set),
\* close the database client (if there is one), run the teardown hook, log.
\* A step begins only when every step before it that applies has finished.
C21_TeardownInOrder ==
    /\ [](\A i \in Instances : \A c \in DOMAIN app[i].teardown :
            LET log == app[i].teardown[c] IN
            /\ \A j, k \in DOMAIN log : j < k => Rank(log[j]) < Rank(log[k])
            /\ "io" \in Range(log) => "disconnect" \in Range(log) /\ "server" \in Range(log)
            /\ "log" \in Range(log) => "deps" \in Range(log))
    /\ [][\A i \in Instances : \A c \in DOMAIN app[i].teardown :
            LET a == app[i]
                old == Range(a.teardown[c])
                new == Range(app'[i].teardown[c]) IN
            /\ "disconnect" \in new \ old => (a.cron # "null" <=> "tasks" \in new)
            /\ "mongo" \in new \ old =>
                   /\ a.cron # "null" <=> "tasks" \in new
                   /\ a.server # "null" <=> "io" \in new
            /\ "deps" \in new \ old =>
                   /\ a.cron # "null" <=> "tasks" \in new
                   /\ a.server # "null" <=> "io" \in new
                   /\ a.mongoClient # Undefined <=> "mongo" \in new]_vars

\* A destroy() call on an active web instance with a database has finished
\* every step of its teardown.
C21_Witness ==
    \E i \in Instances :
        app[i].teardown.ext = <<"disconnect", "server", "io", "mongo", "deps", "log">>

\* C22: in cron mode, once the schedulers have registered their tasks, the
\* dispatcher starts every task that is not marked for manual start
\* (scheduled: false) and starts none that is.
C22_StartsAllButManual ==
    \A i \in Instances :
        app[i].cron = "running" =>
            \A k \in DOMAIN app[i].tasks :
                app[i].tasks[k].starts > 0 <=> taskOptions[k] # "false"

\* C22, as the code has it: the dispatcher calls start() on exactly the tasks
\* created with scheduled: false, whose timer does not run from creation, and
\* on no other; when the handler has completed every registered task runs.
C22_StartsTheManualOnes ==
    \A i \in Instances :
        app[i].cron = "running" =>
            /\ DOMAIN app[i].tasks = DOMAIN taskOptions
            /\ \A k \in DOMAIN app[i].tasks :
                  /\ app[i].tasks[k].starts = (IF taskOptions[k] = "false" THEN 1 ELSE 0)
                  /\ app[i].tasks[k].running

\* The cron handler has completed over a task created with scheduled: false
\* and one created without the option.
C22_Witness ==
    \E i \in Instances :
        /\ app[i].cron = "running"
        /\ \E j, k \in DOMAIN app[i].tasks :
              /\ taskOptions[j] = "false" /\ app[i].tasks[j].starts = 1
              /\ taskOptions[k] = "undefined" /\ app[i].tasks[k].starts = 0

\* Process i takes the step in which the body of its current script starts.
BodyStarts(i) == app[i].pc = "claim" /\ app'[i].pc = "body"

\* C23: over all processes on one Patch collection, the body of patch id N
\* does not start while the record of a lower id is pending, nor while a
\* patch file with a lower id has no record.
C23_NoPatchOverUnfinished ==
    [][\A i \in Instances :
          BodyStarts(i) =>
             \A m \in PatchIds :
                m < app[i].scripts[app[i].idx] =>
                   /\ Patch'[m] # "pending"
                   /\ m \in Range(patchFiles) => Patch'[m] # "none"]_vars

\* C23, as the code has it: the order is kept inside one process's own list
\* only.  When the body of N starts in a process, N is above the greatest id
\* the process read, its record was just inserted as pending, and every script
\* before N in the process's filtered list was claimed and run by this same
\* process and has a record, completed or pending.  No record of a lower id
\* is looked at, in this process or another.
C23_OwnListInOrder ==
    [][\A i \in Instances :
          BodyStarts(i) =>
             LET a == app[i]
                 n == a.scripts[a.idx] IN
             /\ n > a.maxId
             /\ Patch[n] = "none" /\ Patch'[n] = "pending"
             /\ \A k \in 1..(a.idx - 1) :
                   /\ a.scripts[k] \in Range(a.executed)
                   /\ Patch[a.scripts[k]] \in {"pending", "completed"}]_vars

\* Two processes run bodies at once: the one of the higher id was started
\* while the record of the lower id was pending.
C23_Witness ==
    \E i, j \in Instances :
        /\ app[i].pc = "body" /\ app[j].pc = "body"
        /\ app[j].scripts[app[j].idx] < app[i].scripts[app[i].idx]
        /\ Patch[app[j].scripts[app[j].idx]] = "pending"
        /\ app[i].maxId >= app[j].scripts[app[j].idx]

\* C24: when init() fails on an error of the configuration, the database
\* connection, the dependencies, the models or the services, the call rejects,
\* the status stays launching, no mode handler is started, and every later
\* init() of the instance stops at the guard: it runs no bootstrap step.
C24_FailedInitStaysLaunching ==
    /\ [](\A i \in Instances :
            app[i].initResult = "rejected" =>
               /\ app[i].status = "launching"
               /\ app[i].pc = "idle"
               /\ app[i].server = "null" /\ app[i].cron = "null"
               /\ ~app[i].routers /\ ~app[i].schedulers)
    /\ [][\A i \in Instances :
            /\ InitAbort(i) => app'[i].initResult = "rejected"
            /\ app[i].initResult = "rejected" /\ InitCall(i) =>
                   /\ app'[i].refused \in {"returned", "threw"}
                   /\ app'[i] = [app[i] EXCEPT !.refused = app'[i].refused]]_vars

\* init() failed while the database was connecting, and a later init() of the
\* instance was refused.
C24_Witness ==
    \E i \in Instances :
        /\ app[i].initResult = "rejected"
        /\ app[i].mongoClient = "connecting"
        /\ app[i].services = {}
        /\ app[i].refused = "returned"

====
